---- MODULE Spec2Model ----
(***************************************************************************)
(* Model of the resilient request executor of the Instantly MCP server:    *)
(* InstantlyClient.request (src/src/index.ts, lines 45-119) together with  *)
(* the retry configuration it reads (lines 27-33).                         *)
(*                                                                         *)
(* One behaviour is one process: the module-level retryConfig is parsed    *)
(* from the environment, then one call of request() runs.  The actions are *)
(* the segments of the async function between two awaits.  The module load *)
(* itself (lines 12-33 and 1032-1042) is the action Load of the            *)
(* specification SpecServer.                                               *)
(*                                                                         *)
(* Strings that the code parses (environment values, the retry-after       *)
(* header) are tuples of one-character strings, so that parseInt is        *)
(* computed and not assumed.  <<>> stands for a missing or empty value     *)
(* (both are falsy for the || operator of the source).                     *)
(***************************************************************************)
EXTENDS Integers, Sequences, FiniteSets, TLC

\* ------------------------------------------------------------------------
\* Bounds of the model
\* ------------------------------------------------------------------------

\* Largest INSTANTLY_RETRY_MAX_ATTEMPTS explored with the default delays.
MaxAttemptsBound == 6

\* Largest INSTANTLY_RETRY_MAX_ATTEMPTS explored with the other delay settings.
ShortAttemptsBound == 3

\* INSTANTLY_RETRY_MAX_ATTEMPTS when two calls run concurrently.
ConcAttemptsBound == 2

\* Largest INSTANTLY_RETRY_MAX_ATTEMPTS explored from the start of the process.
ServerAttemptsBound == 2

\* INSTANTLY_RETRY_MAX_ATTEMPTS of the process whose tool calls are followed.
ToolAttemptsBound == 2

\* ------------------------------------------------------------------------
\* JavaScript numbers and parseInt
\* ------------------------------------------------------------------------

\* The number NaN (result of parseInt on text without leading digits).
NaN == -999999999

Digits == <<"0", "1", "2", "3", "4", "5", "6", "7", "8", "9">>

IsDigit(c) == \E i \in 1..10 : Digits[i] = c

DigitVal(c) == (CHOOSE i \in 1..10 : Digits[i] = c) - 1

\* Decimal text of a natural number (used to build environment values).
RECURSIVE ToStr(_)
ToStr(n) == IF n < 10 THEN <<Digits[n + 1]>>
            ELSE ToStr(n \div 10) \o <<Digits[(n % 10) + 1]>>

RECURSIVE SkipSpaces(_)
SkipSpaces(s) == IF s # <<>> /\ s[1] = " " THEN SkipSpaces(Tail(s)) ELSE s

\* Value of the longest prefix of digits of s, continuing from acc.
RECURSIVE ParseDigits(_, _)
ParseDigits(s, acc) ==
    IF s # <<>> /\ IsDigit(s[1])
    THEN ParseDigits(Tail(s), acc * 10 + DigitVal(s[1]))
    ELSE acc

\* parseInt(s) of JavaScript for decimal text: leading blanks are skipped, an
\* optional sign is read, then the longest run of digits; text after the
\* digits is ignored, and no digit at all gives NaN.
ParseInt(s) ==
    LET t    == SkipSpaces(s)
        neg  == t # <<>> /\ t[1] = "-"
        body == IF t # <<>> /\ t[1] \in {"-", "+"} THEN Tail(t) ELSE t
    IN  IF body = <<>> \/ ~IsDigit(body[1]) THEN NaN
        ELSE IF neg THEN 0 - ParseDigits(body, 0) ELSE ParseDigits(body, 0)

\* a || b on strings: the empty and the missing string are falsy.
OrElse(a, b) == IF a = <<>> THEN b ELSE a

\* a < b on numbers: false as soon as one side is NaN.
Lt(a, b) == a # NaN /\ b # NaN /\ a < b

\* a * b on numbers.
Mul(a, b) == IF a = NaN \/ b = NaN THEN NaN ELSE a * b

\* Math.pow(b, e) for an integer exponent e >= 0.
RECURSIVE Pow(_, _)
Pow(b, e) == IF e = 0 THEN 1
             ELSE IF b = NaN THEN NaN
             ELSE b * Pow(b, e - 1)

\* Math.min(a, b).
MathMin(a, b) == IF a = NaN \/ b = NaN THEN NaN
                 ELSE IF a < b THEN a ELSE b

\* ------------------------------------------------------------------------
\* Inputs
\* ------------------------------------------------------------------------

\* The API keys (INSTANTLY_API_KEY) the process is started with.
ApiKeys == {"sk_A", "sk_B"}

\* The API key of the processes that are followed from their first call on.
DefaultKey == "sk_A"

\* Values of the four INSTANTLY_RETRY_* environment variables with few
\* attempts and every combination of the other settings.
ShortEnvironments ==
    [ maxAttempts   : {<<>>, <<"a">>} \cup {ToStr(n) : n \in 0..ShortAttemptsBound},
      initialDelay  : {<<>>, <<"1", "0", "0">>},
      maxDelay      : {<<>>, <<"1", "0", "0", "0">>},
      backoffFactor : {<<>>, <<"1">>, <<"3">>} ]

\* Values of the four INSTANTLY_RETRY_* environment variables.
Environments ==
    { [maxAttempts |-> ToStr(MaxAttemptsBound), initialDelay |-> <<>>,
       maxDelay |-> <<>>, backoffFactor |-> <<>>] }
    \cup ShortEnvironments

\* process.env with the settings e and INSTANTLY_API_KEY as k: <<>> when the
\* variable is unset, else <<text>>, where the text may be empty.
WithKey(e, k) ==
    [ apiKey |-> k, maxAttempts |-> e.maxAttempts, initialDelay |-> e.initialDelay,
      maxDelay |-> e.maxDelay, backoffFactor |-> e.backoffFactor ]

\* The environments a process is started in: the API key unset, empty or
\* set; the retry settings unset, invalid (no attempt, not a number, ceiling
\* below the initial delay) or valid.
ServerEnvironments ==
    { WithKey(e, k) :
        e \in [ maxAttempts   : {<<>>, <<"0">>, <<"a">>, ToStr(ServerAttemptsBound)},
                initialDelay  : {<<>>},
                maxDelay      : {<<>>, <<"5", "0", "0">>},
                backoffFactor : {<<>>} ],
        k \in {<<>>, <<"">>} \cup { <<key>> : key \in ApiKeys } }

Endpoints == {"/campaigns"}

\* The method of the calls that are followed through the longest policies;
\* SpecServer and SpecTools follow the calls of the other methods.
Methods == {"GET"}

\* The methods the client methods pass to request() (lines 122-300).
AllMethods == {"GET", "POST", "PATCH", "DELETE"}

\* The payloads the client methods pass to request().
AllPayloads == {"payload", "filter"}

\* The default of this.baseUrl (line 42).
BaseUrl == "https://api.instantly.ai/api/v2"

Payloads == {"payload"}

\* Parsed bodies of 2xx responses.
Bodies == {"ok_true", "list"}

\* Values of the retry-after header of a 429 response.
RetryAfterHeaders == {<<>>, <<"5">>, <<"2">>, <<"s", "o", "o", "n">>}

\* Error statuses the transport answers with.
ErrorStatuses == {400, 401, 404, 408, 409, 429, 500}

\* Bodies of error responses: the error and message fields ("" when absent).
NoData == [error |-> "", message |-> ""]

ErrorData == { NoData,
               [error |-> "", message |-> "msg"],
               [error |-> "err", message |-> "msg"] }

\* The reason phrase of status s (response.statusText).
ReasonPhrase(s) ==
    CASE s = 400 -> "Bad Request"
      [] s = 401 -> "Unauthorized"
      [] s = 404 -> "Not Found"
      [] s = 408 -> "Request Timeout"
      [] s = 409 -> "Conflict"
      [] s = 429 -> "Too Many Requests"
      [] OTHER   -> "Internal Server Error"

\* The error axios rejects with for a response of status s, retry-after
\* header h and body d.
ResponseError(s, h, d) ==
    [ response |-> <<[status |-> s, statusText |-> ReasonPhrase(s),
                      retryAfter |-> h, data |-> d]>>,
      message  |-> <<"Request failed with status code ">> \o ToStr(s) ]

\* The error axios rejects with when no response arrived.
NetworkError == [response |-> <<>>, message |-> <<"Network Error">>]

\* Rejections of the axios promise: a 400 with each of the bodies, a 500 with
\* a body that has both fields, the other statuses with neither field, a 429
\* with each of the headers, and no response at all.
AxiosErrors ==
    { ResponseError(400, <<>>, d) : d \in ErrorData }
    \cup
    { ResponseError(500, <<>>, [error |-> "err", message |-> "msg"]) }
    \cup
    { ResponseError(s, <<>>, NoData) : s \in ErrorStatuses \ {429, 500} }
    \cup
    { ResponseError(429, h, NoData) : h \in RetryAfterHeaders }
    \cup
    { NetworkError }

\* ------------------------------------------------------------------------
\* State
\* ------------------------------------------------------------------------

VARIABLES
    env,           \* process.env: INSTANTLY_API_KEY and the INSTANTLY_RETRY_* settings
    proc,          \* "loading", "serving" or "exited"
    INSTANTLY_API_KEY, \* the module-level constant of line 25 ("" before it is set)
    logs,          \* what was written to the console, in order
    sent,          \* the request configurations passed to axios, in order
    retryConfig,   \* the module-level retry configuration
    pc,            \* "idle", "awaitAxios", "sleeping" or "done"
    endpoint,      \* arguments of request()
    method,
    data,
    attempt,       \* local variable attempt
    lastError,     \* local variable lastError: <<>> while undefined, else <<e>>
    httpCount,     \* number of axios calls issued
    sleeps,        \* the delays passed to setTimeout, in order
    statuses,      \* status of each completed attempt, in order (0: no response)
    headers,       \* retry-after header of each completed attempt (<<>>: none)
    received,      \* <<>> or the body of the latest 2xx response
    result,        \* what the promise of request() settled to
    settled,       \* how many times that promise settled
    cancelled,     \* the host has signalled cancellation of the tool call
    calls,         \* the local state of each of two concurrent calls of request()
    toolCall       \* the run of the tool-call handler and what the host received

vars == <<env, proc, INSTANTLY_API_KEY, logs, sent,
          retryConfig, pc, endpoint, method, data, attempt, lastError,
          httpCount, sleeps, statuses, headers, received, result, settled,
          cancelled, calls, toolCall>>

Pending == [kind |-> "Pending", value |-> "", message |-> <<>>]

\* The tool calls in progress at the same time: the handler of line 841 runs
\* once per tool call, each run with its own client and its own request().
CallIds == {1, 2}

\* The locals of one call of request() before it starts, with the history of
\* what the transport answered to it.
CallInit ==
    [ pc |-> "idle", endpoint |-> "", attempt |-> 0, lastError |-> <<>>,
      httpCount |-> 0, sleeps |-> <<>>, outcomes |-> <<>>, result |-> Pending ]

\* RetryConfigOf with other defaults for the attempts and the initial delay.
RetryConfigOf_OtherDefaults(e) ==
    [ maxAttempts   |-> ParseInt(OrElse(e.maxAttempts, <<"5">>)),
      initialDelay  |-> ParseInt(OrElse(e.initialDelay, <<"5", "0", "0">>)),
      maxDelay      |-> ParseInt(OrElse(e.maxDelay, <<"1", "0", "0", "0", "0">>)),
      backoffFactor |-> ParseInt(OrElse(e.backoffFactor, <<"2">>)) ]

\* retryConfig as computed from the environment e (lines 28-33).
RetryConfigOf(e) ==
    [ maxAttempts   |-> ParseInt(OrElse(e.maxAttempts, <<"3">>)),
      initialDelay  |-> ParseInt(OrElse(e.initialDelay, <<"1", "0", "0", "0">>)),
      maxDelay      |-> ParseInt(OrElse(e.maxDelay, <<"1", "0", "0", "0", "0">>)),
      backoffFactor |-> ParseInt(OrElse(e.backoffFactor, <<"2">>)) ]

\* console.error(text, details): one entry of the error stream; details is
\* <<>> or <<d>> for the object d that is printed after the text.
ConsoleError(text, details) ==
    [stream |-> "stderr", text |-> text, details |-> details]

\* console.log(text): one entry of the output stream.
ConsoleLog(text) == [stream |-> "stdout", text |-> text, details |-> <<>>]

\* Line 1036: what main() writes once the server is connected.
RunningEntry == ConsoleError(<<"Instantly MCP Server running on stdio">>, <<>>)

\* The handler of line 841 has not run: no tool call was received, the list of
\* tools was not asked for, and the host has received no response.
NoToolCall ==
    [ phase |-> "idle", name |-> "", arguments |-> <<>>, executes |-> 0,
      listed |-> <<>>, responses |-> <<>> ]

\* No call of request() has been made.
NoCall ==
    /\ toolCall = NoToolCall
    /\ pc = "idle"
    /\ endpoint = ""
    /\ method = ""
    /\ data = ""
    /\ attempt = 0
    /\ lastError = <<>>
    /\ httpCount = 0
    /\ sleeps = <<>>
    /\ statuses = <<>>
    /\ headers = <<>>
    /\ received = <<>>
    /\ result = Pending
    /\ settled = 0
    /\ cancelled = FALSE
    /\ calls = [id \in CallIds |-> CallInit]
    /\ sent = <<>>

\* The process has loaded the module with a key and one of the environments
\* and serves tool calls.
Init ==
    /\ \E e \in Environments :
          /\ env = WithKey(e, <<DefaultKey>>)
          /\ retryConfig = RetryConfigOf(env)
    /\ proc = "serving"
    /\ INSTANTLY_API_KEY = DefaultKey
    /\ logs = <<RunningEntry>>
    /\ NoCall

\* ------------------------------------------------------------------------
\* The pieces of request()
\* ------------------------------------------------------------------------

\* error.response?.status, 0 when there is no response.
StatusOf(err) == IF err.response = <<>> THEN 0 ELSE err.response[1].status

\* error.response.headers['retry-after'], <<>> when there is none.
HeaderOf(err) == IF err.response = <<>> THEN <<>> ELSE err.response[1].retryAfter

\* LoopCond with <= in place of <.
LoopCond_OffByOne(att) ==
    att # NaN /\ retryConfig.maxAttempts # NaN /\ att <= retryConfig.maxAttempts

\* The loop condition of line 55.
LoopCond(att) == Lt(att, retryConfig.maxAttempts)

\* RetryAfterMs without the conversion from seconds to milliseconds.
RetryAfterMs_Seconds(err) ==
    ParseInt(OrElse(err.response[1].retryAfter, <<"6", "0">>))

\* RetryAfterMs limited by the ceiling of the backoff.
RetryAfterMs_Capped(err) ==
    MathMin(Mul(ParseInt(OrElse(err.response[1].retryAfter, <<"6", "0">>)), 1000),
            retryConfig.maxDelay)

\* Line 92: the delay asked for by a 429 response, in milliseconds.
RetryAfterMs(err) ==
    Mul(ParseInt(OrElse(err.response[1].retryAfter, <<"6", "0">>)), 1000)

\* BackoffDelay without the ceiling maxDelay.
BackoffDelay_NoCap(att) ==
    Mul(retryConfig.initialDelay, Pow(retryConfig.backoffFactor, att - 1))

\* BackoffDelay with the ceiling applied to the power and not to the product.
BackoffDelay_CapsPower(att) ==
    Mul(retryConfig.initialDelay,
        MathMin(Pow(retryConfig.backoffFactor, att - 1), retryConfig.maxDelay))

\* BackoffDelay with the exponent counting from 1 instead of 0.
BackoffDelay_Exponent(att) ==
    MathMin(Mul(retryConfig.initialDelay, Pow(retryConfig.backoffFactor, att)),
            retryConfig.maxDelay)

\* BackoffDelay with an exponent that counts only the earlier failures that
\* were not answered 429.
BackoffDelay_SkipsRateLimited(att) ==
    MathMin(Mul(retryConfig.initialDelay,
                Pow(retryConfig.backoffFactor,
                    Cardinality({k \in 1..Len(statuses) : statuses[k] # 429}))),
            retryConfig.maxDelay)

\* Lines 106-109: the exponential backoff delay after failed attempt att.
BackoffDelay(att) ==
    MathMin(Mul(retryConfig.initialDelay, Pow(retryConfig.backoffFactor, att - 1)),
            retryConfig.maxDelay)

\* Classify without the 401 test and with every status from 401 on retried.
Classify_Retry401(err, att) ==
    IF StatusOf(err) = 404 THEN "NotFound"
    ELSE IF StatusOf(err) = 429 /\ Lt(att, retryConfig.maxAttempts) THEN "RateLimitWait"
    ELSE IF err.response # <<>> /\ StatusOf(err) < 401 THEN "Break"
    ELSE IF Lt(att, retryConfig.maxAttempts) THEN "BackoffWait"
    ELSE "LoopAgain"

\* Classify with 408 (request timeout) retried like a 5xx.
Classify_Retry408(err, att) ==
    IF StatusOf(err) = 404 THEN "NotFound"
    ELSE IF StatusOf(err) = 401 THEN "Unauthorized"
    ELSE IF StatusOf(err) = 429 /\ Lt(att, retryConfig.maxAttempts) THEN "RateLimitWait"
    ELSE IF err.response # <<>> /\ StatusOf(err) < 500 /\ StatusOf(err) # 408 THEN "Break"
    ELSE IF Lt(att, retryConfig.maxAttempts) THEN "BackoffWait"
    ELSE "LoopAgain"

\* Classify without the branch for 429, which then ends the loop at line 102.
Classify_No429(err, att) ==
    IF StatusOf(err) = 404 THEN "NotFound"
    ELSE IF StatusOf(err) = 401 THEN "Unauthorized"
    ELSE IF err.response # <<>> /\ StatusOf(err) < 500 THEN "Break"
    ELSE IF Lt(att, retryConfig.maxAttempts) THEN "BackoffWait"
    ELSE "LoopAgain"

\* Classify without the test for remaining attempts on a 429.
Classify_Always429Wait(err, att) ==
    IF StatusOf(err) = 404 THEN "NotFound"
    ELSE IF StatusOf(err) = 401 THEN "Unauthorized"
    ELSE IF StatusOf(err) = 429 THEN "RateLimitWait"
    ELSE IF err.response # <<>> /\ StatusOf(err) < 500 THEN "Break"
    ELSE IF Lt(att, retryConfig.maxAttempts) THEN "BackoffWait"
    ELSE "LoopAgain"

\* Remembered that keeps the error of the first failed attempt.
Remembered_First(last, err) == IF last = <<>> THEN <<err>> ELSE last

\* Line 66: lastError after the catch block has caught err.
Remembered(last, err) == <<err>>

\* Classify that retries only the calls made with GET.
Classify_OnlyGetRetried(err, att) ==
    IF StatusOf(err) = 404 THEN "NotFound"
    ELSE IF StatusOf(err) = 401 THEN "Unauthorized"
    ELSE IF StatusOf(err) = 429 /\ Lt(att, retryConfig.maxAttempts) /\ method = "GET"
         THEN "RateLimitWait"
    ELSE IF (err.response # <<>> /\ StatusOf(err) < 500) \/ method # "GET" THEN "Break"
    ELSE IF Lt(att, retryConfig.maxAttempts) THEN "BackoffWait"
    ELSE "LoopAgain"

\* Lines 83-112: what the catch block does with error err once attempt has
\* been incremented to att.
Classify(err, att) ==
    IF StatusOf(err) = 404 THEN "NotFound"
    ELSE IF StatusOf(err) = 401 THEN "Unauthorized"
    ELSE IF StatusOf(err) = 429 /\ Lt(att, retryConfig.maxAttempts) THEN "RateLimitWait"
    ELSE IF err.response # <<>> /\ StatusOf(err) < 500 THEN "Break"
    ELSE IF Lt(att, retryConfig.maxAttempts) THEN "BackoffWait"
    ELSE "LoopAgain"

\* ApiError with the message field preferred to the error field.
ApiError_MessageFirst(err) ==
    IF err.response # <<>> /\ err.response[1].data.message # ""
    THEN <<err.response[1].data.message>>
    ELSE IF err.response # <<>> /\ err.response[1].data.error # ""
    THEN <<err.response[1].data.error>>
    ELSE err.message

\* Line 117: the cause named in the final error.
ApiError(err) ==
    IF err.response # <<>> /\ err.response[1].data.error # ""
    THEN <<err.response[1].data.error>>
    ELSE IF err.response # <<>> /\ err.response[1].data.message # ""
    THEN <<err.response[1].data.message>>
    ELSE err.message

\* FinalError without the attempt count.
FinalError_NoCount(last, att) ==
    IF last = <<>>
    THEN <<"TypeError: Cannot read properties of undefined">>
    ELSE <<"Instantly API error: ">> \o ApiError(last[1])

\* FinalError reporting the number of retries instead of attempts.
FinalError_Retries(last, att) ==
    IF last = <<>>
    THEN <<"TypeError: Cannot read properties of undefined">>
    ELSE <<"Instantly API error after ">> \o ToStr(att - 1) \o <<" attempts: ">>
         \o ApiError(last[1])

\* Lines 116-118: the error thrown after the loop.  Reading lastError.response
\* while lastError is undefined throws a TypeError instead.
FinalError(last, att) ==
    IF last = <<>>
    THEN <<"TypeError: Cannot read properties of undefined">>
    ELSE <<"Instantly API error after ">> \o ToStr(att) \o <<" attempts: ">>
         \o ApiError(last[1])

\* The text 'Endpoint not found: ' of line 84, character by character.
EndpointNotFoundText ==
    <<"E", "n", "d", "p", "o", "i", "n", "t", " ", "n", "o", "t", " ",
      "f", "o", "u", "n", "d", ":", " ">>

\* NotFoundError naming the full URL instead of the endpoint.
NotFoundError_Url(ep) ==
    EndpointNotFoundText \o <<"https://api.instantly.ai/api/v2", ep>>

\* Line 84: the message of the error thrown on a 404.
NotFoundError(ep) == EndpointNotFoundText \o <<ep>>

\* The text 'Invalid API key' of line 88, character by character.
InvalidApiKeyText ==
    <<"I", "n", "v", "a", "l", "i", "d", " ", "A", "P", "I", " ", "k", "e", "y">>

\* UnauthorizedError with another wording.
UnauthorizedError_Reworded == <<"U", "n", "a", "u", "t", "h", "o", "r", "i", "z", "e", "d">>

\* Line 88: the message of the error thrown on a 401.
UnauthorizedError == InvalidApiKeyText

\* A number inside a template literal.
NumText(n) == IF n = NaN THEN <<"NaN">> ELSE ToStr(n)

\* Lines 70-79: the object errorDetails built in the catch block for the call
\* of endpoint ep with method m, once attempt has been incremented to att
\* (status 0 and statusText "" when there is no response, responseData <<>>).
ErrorDetails(ep, m, att, err) ==
    [ endpoint     |-> ep,
      method       |-> m,
      url          |-> <<BaseUrl, ep>>,
      attempt      |-> att,
      status       |-> StatusOf(err),
      statusText   |-> IF err.response = <<>> THEN "" ELSE err.response[1].statusText,
      responseData |-> IF err.response = <<>> THEN <<>> ELSE <<err.response[1].data>>,
      message      |-> err.message ]

\* ErrorEntry that prints the request headers with the details.
ErrorEntry_WithHeaders(ep, m, att, err) ==
    ConsoleError(<<"Instantly API Error:", "Bearer ", INSTANTLY_API_KEY>>,
                 <<ErrorDetails(ep, m, att, err)>>)

\* Line 81: the entry written for a failed attempt.
ErrorEntry(ep, m, att, err) ==
    ConsoleError(<<"Instantly API Error:">>, <<ErrorDetails(ep, m, att, err)>>)

\* Line 94: the entry written before the sleep that follows a 429.
RateLimitedEntry(ms) ==
    ConsoleLog(<<"Rate limited. Waiting ">> \o NumText(ms) \o <<"ms before retry...">>)

\* Line 110: the entry written before a backoff sleep.
RetryingEntry(delay, att) ==
    ConsoleLog(<<"Retrying in ">> \o NumText(delay) \o <<"ms... (Attempt ">>
               \o NumText(att) \o <<"/">> \o NumText(retryConfig.maxAttempts)
               \o <<")">>)

\* The value undefined of an argument that the caller left out.
Undefined == "undefined"

\* The default of the parameter method (line 45).
DefaultMethod(m) == IF m = Undefined THEN "GET" ELSE m

\* A field of an object with value v: <<>> when v is undefined.
Field(v) == IF v = Undefined THEN <<>> ELSE <<v>>

\* RequestConfig with the payload always sent as the body.
RequestConfig_AlwaysBody(ep, m, d) ==
    [ method  |-> m,
      url     |-> <<BaseUrl, ep>>,
      headers |-> [ contentType   |-> "application/json",
                    authorization |-> <<"Bearer ", INSTANTLY_API_KEY>> ],
      data    |-> Field(d),
      params  |-> <<>> ]

\* Lines 46-50 and 57-63: the configuration passed to axios for the call of
\* endpoint ep with method m and payload d (<<>>: undefined).
RequestConfig(ep, m, d) ==
    [ method  |-> m,
      url     |-> <<BaseUrl, ep>>,
      headers |-> [ contentType   |-> "application/json",
                    authorization |-> <<"Bearer ", INSTANTLY_API_KEY>> ],
      data    |-> IF m # "GET" THEN Field(d) ELSE <<>>,
      params  |-> IF m = "GET" THEN Field(d) ELSE <<>> ]

\* The promise of request() is fulfilled with v.
Return(v) ==
    /\ pc' = "done"
    /\ result' = [kind |-> "Success", value |-> v, message |-> <<>>]
    /\ settled' = settled + 1

\* The promise of request() is rejected with new Error(msg).
Throw(msg) ==
    /\ pc' = "done"
    /\ result' = [kind |-> "Error", value |-> "", message |-> msg]
    /\ settled' = settled + 1

\* Sleep that also hands the failure of the attempt to the caller.
Sleep_Surfacing(d) ==
    /\ pc' = "sleeping"
    /\ sleeps' = Append(sleeps, d)
    /\ result' = [kind |-> "Error", value |-> "", message |-> <<"attempt failed">>]
    /\ settled' = settled + 1

\* await new Promise(resolve => setTimeout(resolve, d)).
Sleep(d) ==
    /\ pc' = "sleeping"
    /\ sleeps' = Append(sleeps, d)
    /\ UNCHANGED <<result, settled>>

\* Lines 55-63 and 116-118: the loop test with attempt = att and last error
\* last, followed by the axios call with configuration cfg or by the final
\* throw.
LoopHead(att, last, cfg) ==
    IF LoopCond(att)
    THEN /\ pc' = "awaitAxios"
         /\ httpCount' = httpCount + 1
         /\ sent' = Append(sent, cfg)
         /\ UNCHANGED <<result, settled>>
    ELSE /\ Throw(FinalError(last, att))
         /\ UNCHANGED <<httpCount, sent>>

\* ProcessKept with the ceiling of the policy lowered to the initial delay.
ProcessKept_LowersCeiling ==
    /\ UNCHANGED <<env, proc, INSTANTLY_API_KEY>>
    /\ retryConfig' = [retryConfig EXCEPT !.maxDelay = retryConfig.initialDelay]

\* The variables of the process, which no call of request() assigns.
ProcessKept == UNCHANGED <<env, proc, INSTANTLY_API_KEY, retryConfig>>

\* The handler of the tool call does not run: it has not started or it waits
\* for the promise of request().
HandlerKept == UNCHANGED toolCall

\* ------------------------------------------------------------------------
\* Actions
\* ------------------------------------------------------------------------

\* The body of request(ep, m, d) from line 45 up to the first await of line 57.
Execute(ep, m, d) ==
    /\ proc = "serving"
    /\ pc = "idle"
    /\ endpoint' = ep
    /\ method' = DefaultMethod(m)
    /\ data' = d
    /\ attempt' = 0
    /\ lastError' = <<>>
    /\ LoopHead(0, <<>>, RequestConfig(ep, DefaultMethod(m), d))
    /\ ProcessKept
    /\ UNCHANGED <<calls, cancelled, logs, sleeps, statuses, headers, received>>

\* request(ep, m, d) is called on its own, outside a tool call.
Request(ep, m, d) ==
    /\ Execute(ep, m, d)
    /\ HandlerKept

\* AxiosResolve without the return: the body is kept and the loop goes on.
AxiosResolve_NoReturn(status, body) ==
    /\ pc = "awaitAxios"
    /\ statuses' = Append(statuses, status)
    /\ headers' = Append(headers, <<>>)
    /\ received' = <<body>>
    /\ LoopHead(attempt, lastError, RequestConfig(endpoint, method, data))
    /\ ProcessKept
    /\ HandlerKept
    /\ UNCHANGED <<calls, cancelled, logs, endpoint, method, data, attempt, lastError, sleeps>>

\* The axios promise is fulfilled with a 2xx response: line 64.
AxiosResolve(status, body) ==
    /\ pc = "awaitAxios"
    /\ statuses' = Append(statuses, status)
    /\ headers' = Append(headers, <<>>)
    /\ received' = <<body>>
    /\ Return(body)
    /\ ProcessKept
    /\ HandlerKept
    /\ UNCHANGED <<calls, cancelled, logs, sent, endpoint, method, data, attempt,
                   lastError, httpCount, sleeps>>

\* The axios promise is rejected with err: lines 65-113, then the loop test.
AxiosReject(err) ==
    /\ pc = "awaitAxios"
    /\ statuses' = Append(statuses, StatusOf(err))
    /\ headers' = Append(headers, HeaderOf(err))
    /\ lastError' = Remembered(lastError, err)
    /\ attempt' = attempt + 1
    /\ LET att    == attempt + 1
           c      == Classify(err, att)
           logged == Append(logs, ErrorEntry(endpoint, method, att, err))
       IN  CASE c = "NotFound" ->
                  /\ logs' = logged
                  /\ Throw(NotFoundError(endpoint))
                  /\ UNCHANGED <<httpCount, sent, sleeps>>
             [] c = "Unauthorized" ->
                  /\ logs' = logged
                  /\ Throw(UnauthorizedError)
                  /\ UNCHANGED <<httpCount, sent, sleeps>>
             [] c = "RateLimitWait" ->
                  /\ logs' = Append(logged, RateLimitedEntry(RetryAfterMs(err)))
                  /\ Sleep(RetryAfterMs(err))
                  /\ UNCHANGED <<httpCount, sent>>
             [] c = "Break" ->
                  /\ logs' = logged
                  /\ Throw(FinalError(Remembered(lastError, err), att))
                  /\ UNCHANGED <<httpCount, sent, sleeps>>
             [] c = "BackoffWait" ->
                  /\ logs' = Append(logged, RetryingEntry(BackoffDelay(att), att))
                  /\ Sleep(BackoffDelay(att))
                  /\ UNCHANGED <<httpCount, sent>>
             [] OTHER ->
                  /\ logs' = logged
                  /\ LoopHead(att, Remembered(lastError, err),
                              RequestConfig(endpoint, method, data))
                  /\ UNCHANGED sleeps
    /\ ProcessKept
    /\ HandlerKept
    /\ UNCHANGED <<calls, cancelled, endpoint, method, data, received>>

\* TimerFires for a timer whose callback never resolves the promise.
TimerFires_NeverResolves ==
    /\ pc = "sleeping"
    /\ UNCHANGED vars

\* The timer of a sleep fires: line 96 or 111, then the loop test and the
\* next axios call.
TimerFires ==
    /\ pc = "sleeping"
    /\ LoopHead(attempt, lastError, RequestConfig(endpoint, method, data))
    /\ ProcessKept
    /\ HandlerKept
    /\ UNCHANGED <<calls, cancelled, logs, endpoint, method, data, attempt, lastError,
                   sleeps, statuses, headers, received>>

\* The host signals cancellation while the call waits for axios or sleeps.
\* The handler of line 841 takes no signal, request() has no parameter for
\* one and passes neither signal nor timeout to axios: nothing reacts.
Cancel ==
    /\ pc \in {"awaitAxios", "sleeping"}
    /\ ~cancelled
    /\ cancelled' = TRUE
    /\ ProcessKept
    /\ HandlerKept
    /\ UNCHANGED <<logs, sent, pc, endpoint, method, data, attempt, lastError,
                   httpCount, sleeps, statuses, headers, received, result,
                   settled, calls>>

Next ==
    \/ \E ep \in Endpoints, m \in Methods, d \in Payloads : Request(ep, m, d)
    \/ \E b \in Bodies : AxiosResolve(200, b)
    \/ \E err \in AxiosErrors : AxiosReject(err)
    \/ TimerFires

Spec == Init /\ [][Next]_vars

\* ------------------------------------------------------------------------
\* Two concurrent calls
\* ------------------------------------------------------------------------

\* Lines 55-63 and 116-118 for the call with locals c: the loop test with
\* attempt = att, then the axios call or the final throw.
Enter(c, att, last) ==
    IF LoopCond(att)
    THEN [c EXCEPT !.pc = "awaitAxios", !.httpCount = @ + 1]
    ELSE [c EXCEPT !.pc = "done",
                   !.result = [kind |-> "Error", value |-> "",
                               message |-> FinalError(last, att)]]

\* The call with locals c starts a sleep of d ms.
Wait(c, d) == [c EXCEPT !.pc = "sleeping", !.sleeps = Append(@, d)]

\* The call with locals c throws new Error(msg).
Fail(c, msg) ==
    [c EXCEPT !.pc = "done",
              !.result = [kind |-> "Error", value |-> "", message |-> msg]]

\* The variables of the single call, which two concurrent calls do not use.
SingleCallIdle ==
    UNCHANGED <<env, proc, INSTANTLY_API_KEY, logs, sent, toolCall,
                retryConfig, pc, endpoint, method, data, attempt, lastError,
                httpCount, sleeps, statuses, headers, received, result,
                settled, cancelled>>

\* Call id starts: lines 45-63.
CallRequest(id, ep) ==
    /\ calls[id].pc = "idle"
    /\ SingleCallIdle
    /\ calls' = [calls EXCEPT ![id] =
                    Enter([@ EXCEPT !.endpoint = ep, !.attempt = 0,
                                    !.lastError = <<>>], 0, <<>>)]

\* The axios promise of call id is fulfilled: line 64.
CallResolve(id, body) ==
    /\ calls[id].pc = "awaitAxios"
    /\ SingleCallIdle
    /\ calls' = [calls EXCEPT ![id] =
                    [@ EXCEPT !.pc = "done",
                              !.outcomes = Append(@, [status |-> 200, header |-> <<>>]),
                              !.result = [kind |-> "Success", value |-> body,
                                          message |-> <<>>]]]

\* The catch block of lines 65-113 in the call with locals c, where the
\* attempt counter read and incremented holds att - 1.
Caught(c, err, att) ==
    LET b   == [c EXCEPT !.attempt = att, !.lastError = <<err>>,
                         !.outcomes = Append(@, [status |-> StatusOf(err),
                                                 header |-> HeaderOf(err)])]
        cls == Classify(err, att)
    IN  CASE cls = "NotFound"      -> Fail(b, NotFoundError(b.endpoint))
          [] cls = "Unauthorized"  -> Fail(b, UnauthorizedError)
          [] cls = "RateLimitWait" -> Wait(b, RetryAfterMs(err))
          [] cls = "Break"         -> Fail(b, FinalError(<<err>>, att))
          [] cls = "BackoffWait"   -> Wait(b, BackoffDelay(att))
          [] OTHER                 -> Enter(b, att, <<err>>)

\* CallReject with one attempt counter shared by all the calls.
CallReject_SharedAttempt(id, err) ==
    /\ calls[id].pc = "awaitAxios"
    /\ SingleCallIdle
    /\ calls' = [calls EXCEPT ![id] =
                    Caught(@, err, calls[1].attempt + calls[2].attempt + 1)]

\* The axios promise of call id is rejected with err: lines 65-113; attempt
\* is a local of the call (line 52).
CallReject(id, err) ==
    /\ calls[id].pc = "awaitAxios"
    /\ SingleCallIdle
    /\ calls' = [calls EXCEPT ![id] = Caught(@, err, @.attempt + 1)]

\* The timer of the sleep of call id fires: line 96 or 111, then the loop.
CallTimer(id) ==
    /\ calls[id].pc = "sleeping"
    /\ SingleCallIdle
    /\ calls' = [calls EXCEPT ![id] = Enter(@, @.attempt, @.lastError)]

\* The environment of the process that serves concurrent tool calls.
ConcEnvironments ==
    { [maxAttempts |-> ToStr(ConcAttemptsBound), initialDelay |-> <<>>,
       maxDelay |-> <<>>, backoffFactor |-> <<>>] }

InitConc ==
    /\ Init
    /\ \E e \in ConcEnvironments : env = WithKey(e, <<DefaultKey>>)

NextConc ==
    \/ \E id \in CallIds, ep \in Endpoints : CallRequest(id, ep)
    \/ \E id \in CallIds, b \in Bodies : CallResolve(id, b)
    \/ \E id \in CallIds, err \in AxiosErrors : CallReject(id, err)
    \/ \E id \in CallIds : CallTimer(id)

SpecConc == InitConc /\ [][NextConc]_vars

\* ------------------------------------------------------------------------
\* The process from its start
\* ------------------------------------------------------------------------

\* retryConfig before line 28 has run.
NotLoaded ==
    [maxAttempts |-> NaN, initialDelay |-> NaN, maxDelay |-> NaN, backoffFactor |-> NaN]

\* GetApiKey that returns the value of the variable whatever it is.
GetApiKey_NoExit(e) ==
    [exits |-> FALSE, value |-> IF e.apiKey = <<>> THEN "" ELSE e.apiKey[1]]

\* Lines 15-22: getApiKey() in the environment e.  !apiKey holds for the
\* unset and for the empty variable; the process then exits with code 1.
GetApiKey(e) ==
    IF e.apiKey = <<>> \/ e.apiKey = <<"">>
    THEN [exits |-> TRUE, value |-> ""]
    ELSE [exits |-> FALSE, value |-> e.apiKey[1]]

\* Line 18: what getApiKey() writes before it exits.
KeyRequiredEntry ==
    ConsoleError(<<"INSTANTLY_API_KEY environment variable is required">>, <<>>)

\* The module is loaded: lines 12-33 (the API key, then retryConfig), the
\* registration of the handlers and main() of lines 1032-1042.
Load ==
    /\ proc = "loading"
    /\ LET k == GetApiKey(env)
       IN  IF k.exits
           THEN /\ logs' = Append(logs, KeyRequiredEntry)
                /\ proc' = "exited"
                /\ UNCHANGED <<INSTANTLY_API_KEY, retryConfig>>
           ELSE /\ INSTANTLY_API_KEY' = k.value
                /\ retryConfig' = RetryConfigOf(env)
                /\ logs' = Append(logs, RunningEntry)
                /\ proc' = "serving"
    /\ UNCHANGED <<env, sent, pc, endpoint, method, data, attempt, lastError,
                   httpCount, sleeps, statuses, headers, received, result,
                   settled, cancelled, calls, toolCall>>

\* The process has been started in one of the environments and nothing of
\* the module has run.
InitServer ==
    /\ env \in ServerEnvironments
    /\ proc = "loading"
    /\ INSTANTLY_API_KEY = ""
    /\ retryConfig = NotLoaded
    /\ logs = <<>>
    /\ NoCall

NextServer ==
    \/ Load
    \/ \E ep \in Endpoints, m \in AllMethods, d \in AllPayloads : Request(ep, m, d)
    \/ \E b \in Bodies : AxiosResolve(200, b)
    \/ \E err \in AxiosErrors : AxiosReject(err)
    \/ TimerFires

SpecServer == InitServer /\ [][NextServer]_vars

\* ------------------------------------------------------------------------
\* The tool catalog and the tool-call handler
\* ------------------------------------------------------------------------

\* The names of toolSchemas (lines 324-827), in the order of the object.
ToolSchemas ==
    <<"get_warmup_analytics", "test_account_vitals",
      "get_campaign_analytics", "get_campaign_analytics_overview",
      "get_daily_campaign_analytics", "get_campaign_steps_analytics",
      "create_account", "list_accounts", "get_account", "update_account",
      "delete_account", "pause_account", "resume_account",
      "mark_account_fixed", "get_tracking_domain_status", "create_campaign",
      "list_campaigns", "activate_campaign", "pause_campaign",
      "get_campaign", "update_campaign", "delete_campaign", "share_campaign",
      "reply_to_email", "list_emails", "get_email", "update_email",
      "delete_email", "count_unread_emails", "mark_thread_as_read",
      "verify_email", "get_email_verification", "create_lead", "list_leads",
      "get_lead", "update_lead", "delete_lead", "merge_leads",
      "update_lead_interest_status", "create_lead_list", "list_lead_lists",
      "get_lead_list", "update_lead_list", "delete_lead_list" >>

\* Dispatch whose switch has the case of delete_campaign only.
Dispatch_OnlyDeleteCampaign(name) ==
    IF name = "delete_campaign"
    THEN <<[endpoint |-> "/campaigns/${params.id}",
            method |-> "DELETE", data |-> Undefined]>>
    ELSE <<>>

\* Lines 856-1010 with the client methods of lines 121-306: the call of
\* request() that the case of the switch for name leads to, <<>> when the
\* switch has no case for name (the default of line 1008).  The endpoint is
\* the template of the client method, the payload names what is passed.
Dispatch(name) ==
    CASE name = "get_warmup_analytics" ->
           <<[endpoint |-> "/accounts/warmup-analytics",
              method |-> "POST", data |-> "{ emails: params.emails }"]>>
      [] name = "test_account_vitals" ->
           <<[endpoint |-> "/accounts/test/vitals",
              method |-> "POST", data |-> "{ accounts: params.accounts }"]>>
      [] name = "get_campaign_analytics" ->
           <<[endpoint |-> "/campaigns/analytics",
              method |-> "GET", data |-> "params"]>>
      [] name = "get_campaign_analytics_overview" ->
           <<[endpoint |-> "/campaigns/analytics/overview",
              method |-> "GET", data |-> "params"]>>
      [] name = "get_daily_campaign_analytics" ->
           <<[endpoint |-> "/campaigns/analytics/daily",
              method |-> "GET", data |-> "params"]>>
      [] name = "get_campaign_steps_analytics" ->
           <<[endpoint |-> "/campaigns/analytics/steps",
              method |-> "GET", data |-> "params"]>>
      [] name = "create_account" ->
           <<[endpoint |-> "/accounts",
              method |-> "POST", data |-> "params"]>>
      [] name = "list_accounts" ->
           <<[endpoint |-> "/accounts",
              method |-> "GET", data |-> "params"]>>
      [] name = "get_account" ->
           <<[endpoint |-> "/accounts/${encodeURIComponent(params.email)}",
              method |-> Undefined, data |-> Undefined]>>
      [] name = "update_account" ->
           <<[endpoint |-> "/accounts/${encodeURIComponent(params.email)}",
              method |-> "PATCH", data |-> "params without email"]>>
      [] name = "delete_account" ->
           <<[endpoint |-> "/accounts/${encodeURIComponent(params.email)}",
              method |-> "DELETE", data |-> Undefined]>>
      [] name = "pause_account" ->
           <<[endpoint |-> "/accounts/${encodeURIComponent(params.email)}/pause",
              method |-> "POST", data |-> Undefined]>>
      [] name = "resume_account" ->
           <<[endpoint |-> "/accounts/${encodeURIComponent(params.email)}/resume",
              method |-> "POST", data |-> Undefined]>>
      [] name = "mark_account_fixed" ->
           <<[endpoint |-> "/accounts/${encodeURIComponent(params.email)}/mark-fixed",
              method |-> "POST", data |-> Undefined]>>
      [] name = "get_tracking_domain_status" ->
           <<[endpoint |-> "/accounts/ctd/status",
              method |-> "GET", data |-> "{ host: params.host }"]>>
      [] name = "create_campaign" ->
           <<[endpoint |-> "/campaigns",
              method |-> "POST", data |-> "params"]>>
      [] name = "list_campaigns" ->
           <<[endpoint |-> "/campaigns",
              method |-> "GET", data |-> "params"]>>
      [] name = "activate_campaign" ->
           <<[endpoint |-> "/campaigns/${params.id}/activate",
              method |-> "POST", data |-> Undefined]>>
      [] name = "pause_campaign" ->
           <<[endpoint |-> "/campaigns/${params.id}/pause",
              method |-> "POST", data |-> Undefined]>>
      [] name = "get_campaign" ->
           <<[endpoint |-> "/campaigns/${params.id}",
              method |-> Undefined, data |-> Undefined]>>
      [] name = "update_campaign" ->
           <<[endpoint |-> "/campaigns/${params.id}",
              method |-> "PATCH", data |-> "params without id"]>>
      [] name = "delete_campaign" ->
           <<[endpoint |-> "/campaigns/${params.id}",
              method |-> "DELETE", data |-> Undefined]>>
      [] name = "share_campaign" ->
           <<[endpoint |-> "/campaigns/${params.id}/share",
              method |-> "POST", data |-> Undefined]>>
      [] name = "reply_to_email" ->
           <<[endpoint |-> "/emails/reply",
              method |-> "POST", data |-> "params"]>>
      [] name = "list_emails" ->
           <<[endpoint |-> "/emails",
              method |-> "GET", data |-> "params"]>>
      [] name = "get_email" ->
           <<[endpoint |-> "/emails/${params.id}",
              method |-> Undefined, data |-> Undefined]>>
      [] name = "update_email" ->
           <<[endpoint |-> "/emails/${params.id}",
              method |-> "PATCH", data |-> "params without id"]>>
      [] name = "delete_email" ->
           <<[endpoint |-> "/emails/${params.id}",
              method |-> "DELETE", data |-> Undefined]>>
      [] name = "count_unread_emails" ->
           <<[endpoint |-> "/emails/unread/count",
              method |-> Undefined, data |-> Undefined]>>
      [] name = "mark_thread_as_read" ->
           <<[endpoint |-> "/emails/threads/${params.thread_id}/mark-as-read",
              method |-> "POST", data |-> Undefined]>>
      [] name = "verify_email" ->
           <<[endpoint |-> "/email-verification",
              method |-> "POST", data |-> "{ email: params.email }"]>>
      [] name = "get_email_verification" ->
           <<[endpoint |-> "/email-verification/${encodeURIComponent(params.email)}",
              method |-> Undefined, data |-> Undefined]>>
      [] name = "create_lead" ->
           <<[endpoint |-> "/leads",
              method |-> "POST", data |-> "params"]>>
      [] name = "list_leads" ->
           <<[endpoint |-> "/leads/list",
              method |-> "POST", data |-> "params"]>>
      [] name = "get_lead" ->
           <<[endpoint |-> "/leads/${params.id}",
              method |-> Undefined, data |-> Undefined]>>
      [] name = "update_lead" ->
           <<[endpoint |-> "/leads/${params.id}",
              method |-> "PATCH", data |-> "params without id"]>>
      [] name = "delete_lead" ->
           <<[endpoint |-> "/leads/${params.id}",
              method |-> "DELETE", data |-> Undefined]>>
      [] name = "merge_leads" ->
           <<[endpoint |-> "/leads/merge",
              method |-> "POST", data |-> "params"]>>
      [] name = "update_lead_interest_status" ->
           <<[endpoint |-> "/leads/update-interest-status",
              method |-> "POST", data |-> "params"]>>
      [] name = "create_lead_list" ->
           <<[endpoint |-> "/lead-lists",
              method |-> "POST", data |-> "params"]>>
      [] name = "list_lead_lists" ->
           <<[endpoint |-> "/lead-lists",
              method |-> "GET", data |-> "params"]>>
      [] name = "get_lead_list" ->
           <<[endpoint |-> "/lead-lists/${params.id}",
              method |-> Undefined, data |-> Undefined]>>
      [] name = "update_lead_list" ->
           <<[endpoint |-> "/lead-lists/${params.id}",
              method |-> "PATCH", data |-> "params without id"]>>
      [] name = "delete_lead_list" ->
           <<[endpoint |-> "/lead-lists/${params.id}",
              method |-> "DELETE", data |-> Undefined]>>
      [] OTHER -> <<>>

\* The names a host calls: those of the catalog, the name of a client method
\* that has no tool, and a name that is nowhere in the module.
ToolNames ==
    { ToolSchemas[i] : i \in 1..Len(ToolSchemas) }
    \cup {"remove_lead_from_subsequence", "no_such_tool"}

\* request.params.arguments: <<>> when the host sent none, else <<args>>.
ToolArguments == {<<>>, <<"params">>}

\* The environments of the process whose tool calls are followed.
ToolEnvironments ==
    { [maxAttempts |-> a, initialDelay |-> <<>>, maxDelay |-> <<>>,
       backoffFactor |-> <<>>] : a \in {<<"0">>, ToStr(ToolAttemptsBound)} }

\* ArgsMissing that accepts a call without arguments.
ArgsMissing_Never(args) == FALSE

\* Line 849: !args.
ArgsMissing(args) == args = <<>>

\* JSON.stringify(v, null, 2) for the response bodies of the model: the
\* object {ok: true} and the empty list.
JsonStringify(v) ==
    CASE v = "ok_true" -> "{\n  \"ok\": true\n}"
      [] v = "list"    -> "[]"

\* A response of the handler with one text content.
TextResponse(text) == [content |-> <<[type |-> "text", text |-> text]>>]

\* Lines 1012-1019: the response for the result v of request().
ResultResponse(v) == TextResponse(<<JsonStringify(v)>>)

\* Lines 1020-1029: the response for a caught error with message msg.
ErrorResponse(msg) == TextResponse(<<"Error: ">> \o msg)

\* The handler returns resp: the host receives it.
Responded(resp) ==
    [toolCall EXCEPT !.phase = "responded", !.responses = Append(@, resp)]

\* request() is not called and none of its calls advances.
NoRequest ==
    UNCHANGED <<env, proc, INSTANTLY_API_KEY, logs, sent, retryConfig, pc,
                endpoint, method, data, attempt, lastError, httpCount, sleeps,
                statuses, headers, received, result, settled, cancelled, calls>>

\* Lines 830-838: the list-tools handler returns the entries of toolSchemas.
ListTools ==
    /\ proc = "serving"
    /\ toolCall.listed = <<>>
    /\ toolCall' = [toolCall EXCEPT !.listed = ToolSchemas]
    /\ NoRequest

\* Lines 841-1010: the handler receives the tool call name with arguments
\* args and runs up to its first await, or to the end when it throws before.
CallTool(name, args) ==
    /\ proc = "serving"
    /\ toolCall.phase = "idle"
    /\ IF ArgsMissing(args)
       THEN /\ toolCall' = [Responded(ErrorResponse(<<"No arguments provided">>))
                               EXCEPT !.name = name, !.arguments = args]
            /\ NoRequest
       ELSE IF Dispatch(name) = <<>>
       THEN /\ toolCall' = [Responded(ErrorResponse(<<"Unknown tool: ", name>>))
                               EXCEPT !.name = name, !.arguments = args]
            /\ NoRequest
       ELSE /\ Execute(Dispatch(name)[1].endpoint, Dispatch(name)[1].method,
                       Dispatch(name)[1].data)
            /\ toolCall' = [toolCall EXCEPT !.phase = "awaiting", !.name = name,
                                            !.arguments = args,
                                            !.executes = @ + 1]

\* Respond that lets the error of request() escape from the handler.
Respond_Rethrows ==
    /\ toolCall.phase = "awaiting"
    /\ pc = "done"
    /\ toolCall' = IF result.kind = "Success"
                   THEN Responded(ResultResponse(result.value))
                   ELSE [toolCall EXCEPT !.phase = "failed"]
    /\ NoRequest

\* Lines 1012-1029: the promise of request() has settled and the handler
\* returns the text of the result, or of the error it catches.
Respond ==
    /\ toolCall.phase = "awaiting"
    /\ pc = "done"
    /\ toolCall' = IF result.kind = "Success"
                   THEN Responded(ResultResponse(result.value))
                   ELSE Responded(ErrorResponse(result.message))
    /\ NoRequest

\* The process serves, and no tool call has been received.
InitTools ==
    /\ \E e \in ToolEnvironments :
          /\ env = WithKey(e, <<DefaultKey>>)
          /\ retryConfig = RetryConfigOf(env)
    /\ proc = "serving"
    /\ INSTANTLY_API_KEY = DefaultKey
    /\ logs = <<RunningEntry>>
    /\ NoCall

NextTools ==
    \/ ListTools
    \/ \E name \in ToolNames, args \in ToolArguments : CallTool(name, args)
    \/ Respond
    \/ \E b \in Bodies : AxiosResolve(200, b)
    \/ \E err \in AxiosErrors : AxiosReject(err)
    \/ TimerFires

SpecTools == InitTools /\ [][NextTools]_vars

\* The call in a host that may signal cancellation.
NextCancel == Next \/ Cancel

SpecCancel == Init /\ [][NextCancel]_vars

\* ------------------------------------------------------------------------
\* Vocabulary of the properties
\* ------------------------------------------------------------------------

\* The number of attempts allowed, when the configuration holds a number.
HasAttempts == retryConfig.maxAttempts # NaN /\ retryConfig.maxAttempts >= 1

Is2xx(s) == s >= 200 /\ s <= 299

\* Status of a failure the executor may retry: no response, or 5xx.
IsTransient(s) == s = 0 \/ s >= 500

\* Status of a failure classified fatal.
IsFatal(s) == s # 0 /\ s < 500 /\ ~Is2xx(s) /\ s # 429

Smaller(a, b) == IF a < b THEN a ELSE b

\* The backoff delay the specification prescribes after failed attempt k.
SpecBackoff(k) ==
    Smaller(retryConfig.initialDelay * retryConfig.backoffFactor ^ (k - 1),
            retryConfig.maxDelay)

DefaultDelays == retryConfig.initialDelay = 1000 /\ retryConfig.maxDelay = 10000
                 /\ retryConfig.backoffFactor = 2

Success(v) == [kind |-> "Success", value |-> v, message |-> <<>>]

\* ------------------------------------------------------------------------
\* Properties
\* ------------------------------------------------------------------------

\* C1: with maxAttempts >= 1, a call of request() issues at least one and at
\* most maxAttempts HTTP requests.
C1_AttemptsBounded ==
    HasAttempts =>
        /\ httpCount <= retryConfig.maxAttempts
        /\ pc # "idle" => httpCount >= 1

C1_Witness ==
    /\ pc = "done"
    /\ retryConfig.maxAttempts >= 3
    /\ httpCount = retryConfig.maxAttempts

\* C2: a 2xx response on attempt k ends the call with Success carrying the
\* body of that response; attempt k is the last one and no sleep follows it.
C2_SuccessEndsCall ==
    \A k \in 1..Len(statuses) :
        Is2xx(statuses[k]) =>
            /\ k = Len(statuses)
            /\ pc = "done"
            /\ result = Success(received[1])
            /\ httpCount = k
            /\ Len(sleeps) = k - 1

C2_Witness ==
    /\ Len(statuses) >= 2
    /\ Is2xx(statuses[Len(statuses)])
    /\ Len(statuses) < retryConfig.maxAttempts
    /\ result.kind = "Success"

\* C3: a 404 or 401 response ends the call with a failure right after that
\* attempt: no sleep and no HTTP request follows it, whatever maxAttempts is.
C3_NotFoundUnauthorizedStop ==
    \A k \in 1..Len(statuses) :
        statuses[k] \in {401, 404} =>
            /\ k = Len(statuses)
            /\ pc = "done"
            /\ result.kind = "Error"
            /\ httpCount = k
            /\ Len(sleeps) = k - 1

C3_Witness ==
    /\ statuses = <<401>>
    /\ retryConfig.maxAttempts >= 3
    /\ httpCount = 1
    /\ result.kind = "Error"

\* C4: an error status below 500 other than 401, 404 and 429 (400, 408, 409)
\* ends the call with a failure right after that attempt, even when attempts
\* remain.
C4_ClientErrorsStop ==
    \A k \in 1..Len(statuses) :
        (IsFatal(statuses[k]) /\ statuses[k] \notin {401, 404}) =>
            /\ k = Len(statuses)
            /\ pc = "done"
            /\ result.kind = "Error"
            /\ httpCount = k
            /\ Len(sleeps) = k - 1

C4_Witness ==
    /\ Len(statuses) = 2
    /\ statuses[2] = 408
    /\ retryConfig.maxAttempts >= 3
    /\ result.kind = "Error"

\* C5: after a 429 response whose retry-after header is N seconds, with
\* attempts remaining, the sleep is exactly N * 1000 ms.
C5_RetryAfterHonoured ==
    (/\ lastError # <<>>
     /\ StatusOf(lastError[1]) = 429
     /\ attempt < retryConfig.maxAttempts) =>
        \A n \in 0..9 :
            lastError[1].response[1].retryAfter = <<Digits[n + 1]>> =>
                /\ Len(sleeps) = attempt
                /\ sleeps[attempt] = n * 1000

C5_Witness ==
    /\ pc = "sleeping"
    /\ attempt = 2
    /\ StatusOf(lastError[1]) = 429
    /\ lastError[1].response[1].retryAfter = <<"5">>
    /\ sleeps[2] = 5000
    /\ SpecBackoff(2) # 5000

\* C6: when attempt k fails with a status >= 500 or without a response and
\* k < maxAttempts, the sleep is min(initialDelay * backoffFactor^(k-1),
\* maxDelay) and attempt k+1 follows it; with delays 1000/10000 and factor 2
\* the sleeps after consecutive 5xx are 1000, 2000, 4000, 8000, then 10000.
C6_BackoffDelay ==
    (/\ lastError # <<>>
     /\ IsTransient(StatusOf(lastError[1]))
     /\ attempt < retryConfig.maxAttempts) =>
        /\ Len(sleeps) = attempt
        /\ sleeps[attempt] = SpecBackoff(attempt)
        /\ pc = "sleeping" => httpCount = attempt
        /\ pc # "sleeping" => httpCount = attempt + 1
        /\ DefaultDelays =>
              sleeps[attempt] =
                  IF attempt <= 4 THEN <<1000, 2000, 4000, 8000>>[attempt]
                  ELSE 10000

C6_Witness ==
    /\ pc = "awaitAxios"
    /\ statuses = <<500, 500, 500, 500, 500>>
    /\ sleeps = <<1000, 2000, 4000, 8000, 10000>>
    /\ httpCount = 6

\* C7: when all maxAttempts attempts get a 5xx response, the call fails after
\* exactly maxAttempts HTTP requests with the error that reports maxAttempts
\* attempts.
C7_ExhaustionReportsAttempts ==
    (HasAttempts /\ \A k \in 1..Len(statuses) : statuses[k] >= 500) =>
        /\ Len(statuses) < retryConfig.maxAttempts => pc # "done"
        /\ Len(statuses) = retryConfig.maxAttempts =>
              /\ pc = "done"
              /\ httpCount = retryConfig.maxAttempts
              /\ result.kind = "Error"
              /\ SubSeq(result.message, 1, Len(ToStr(retryConfig.maxAttempts)) + 2)
                    = <<"Instantly API error after ">>
                      \o ToStr(retryConfig.maxAttempts) \o <<" attempts: ">>

C7_Witness ==
    /\ pc = "done"
    /\ statuses = <<500, 500, 500>>
    /\ retryConfig.maxAttempts = 3
    /\ result.message[2] = "3"

\* C8: when the first j attempts fail with 5xx or without a response and
\* attempt j+1 gets a 2xx response, the call returns Success with that body
\* after exactly j+1 HTTP requests and j sleeps, the i-th sleep being
\* min(initialDelay * backoffFactor^(i-1), maxDelay); the caller sees a single
\* outcome.  Delays 100/1000 with factor 2 and 500, 500, 200 give 100 and 200.
C8_TransientFailuresHidden ==
    \A j \in 0..(Len(statuses) - 1) :
        (/\ Len(statuses) = j + 1
         /\ \A i \in 1..j : IsTransient(statuses[i])
         /\ Is2xx(statuses[j + 1])) =>
            /\ pc = "done"
            /\ result = Success(received[1])
            /\ settled = 1
            /\ httpCount = j + 1
            /\ Len(sleeps) = j
            /\ \A i \in 1..j : sleeps[i] = SpecBackoff(i)
            /\ (/\ retryConfig.initialDelay = 100
                /\ retryConfig.maxDelay = 1000
                /\ retryConfig.backoffFactor = 2
                /\ j = 2) => sleeps = <<100, 200>>

C8_Witness ==
    /\ retryConfig = [maxAttempts |-> 3, initialDelay |-> 100,
                      maxDelay |-> 1000, backoffFactor |-> 2]
    /\ statuses = <<500, 500, 200>>
    /\ result = Success("ok_true")
    /\ httpCount = 3
    /\ sleeps = <<100, 200>>

\* C9: a sleep starts only after an attempt that is not the last allowed one
\* and that was not classified fatal (401, 404, other status below 500 except
\* 429).
C9_NoSleepAfterFinalOrFatal ==
    [][sleeps' # sleeps =>
          /\ Len(statuses') < retryConfig.maxAttempts
          /\ ~IsFatal(statuses'[Len(statuses')])]_vars

C9_Witness ==
    /\ pc = "done"
    /\ retryConfig.maxAttempts >= 2
    /\ Len(statuses) = retryConfig.maxAttempts
    /\ statuses[Len(statuses)] = 429
    /\ Len(sleeps) = retryConfig.maxAttempts - 1

\* C10: a call settles exactly once, to Success or to one error and never to
\* both; while attempts are retried the caller has received nothing.
C10_ExactlyOneOutcome ==
    /\ settled <= 1
    /\ pc = "done" <=> settled = 1
    /\ pc # "done" => result = Pending
    /\ pc = "done" =>
          \/ result.kind = "Success" /\ result.message = <<>>
          \/ result.kind = "Error" /\ result.value = "" /\ result.message # <<>>

C10_Witness ==
    /\ pc = "done"
    /\ settled = 1
    /\ Len(statuses) >= 3
    /\ result.kind = "Error"

\* ------------------------------------------------------------------------
\* Progress
\* ------------------------------------------------------------------------

\* Every HTTP attempt completes (axios settles its promise) and every timer
\* fires: the event loop runs a callback that is ready.
AxiosSettles ==
    \/ \E b \in Bodies : AxiosResolve(200, b)
    \/ \E err \in AxiosErrors : AxiosReject(err)

\* Progress is explored for the environments with few attempts.
InitFair ==
    /\ Init
    /\ \E e \in ShortEnvironments : env = WithKey(e, <<DefaultKey>>)

FairSpec ==
    InitFair /\ [][Next]_vars /\ WF_vars(AxiosSettles) /\ WF_vars(TimerFires)

\* C11: when every HTTP attempt completes and every sleep ends, a call of
\* request() that has started eventually settles, with Success or an error.
C11_CallTerminates ==
    (pc # "idle") ~> (pc = "done" /\ result.kind \in {"Success", "Error"})

C11_Witness ==
    /\ pc = "done"
    /\ Len(sleeps) >= 2
    /\ Len(statuses) = retryConfig.maxAttempts
    /\ result.kind = "Error"

\* The state of the call in the vocabulary of the state machine.
Phase ==
    IF pc = "idle" THEN "NotStarted"
    ELSE IF pc = "awaitAxios" THEN "Attempting"
    ELSE IF pc = "sleeping" THEN "RetryWait"
    ELSE IF result.kind = "Success" THEN "Success"
    ELSE "Failed"

\* C12: a call starts in Attempting and moves only along: Attempting to
\* Success on 2xx; Attempting to Failed on 401, 404, another status below 500
\* except 429, or with no attempt left; Attempting to RetryWait on 429, 5xx or
\* no response with attempts left; RetryWait to Attempting.  Success and
\* Failed are never left.
C12_StateMachine ==
    [][LET last == statuses'[Len(statuses')]
           left == Len(statuses') < retryConfig.maxAttempts
       IN  /\ Phase = "NotStarted" => Phase' = "Attempting"
           /\ Phase = "Attempting" =>
                 \/ Phase' = "Success" /\ Is2xx(last)
                 \/ Phase' = "Failed" /\ (IsFatal(last) \/ ~left) /\ ~Is2xx(last)
                 \/ Phase' = "RetryWait" /\ (last = 429 \/ IsTransient(last)) /\ left
           /\ Phase = "RetryWait" => Phase' = "Attempting"
           /\ Phase \notin {"Success", "Failed"}]_vars

\* The final error reports n attempts.
ReportsAttempts(msg, n) ==
    /\ Len(msg) >= Len(ToStr(n)) + 2
    /\ SubSeq(msg, 1, Len(ToStr(n)) + 2)
          = <<"Instantly API error after ">> \o ToStr(n) \o <<" attempts: ">>

\* C13: when every attempt gets a 429 response, each of them but the last
\* allowed one is followed by one sleep of the retry-after value of that
\* response, and the call fails only after maxAttempts HTTP requests, with
\* the error that reports maxAttempts attempts.
C13_RateLimitedUntilExhausted ==
    (statuses # <<>> /\ \A k \in 1..Len(statuses) : statuses[k] = 429) =>
        /\ Len(statuses) < retryConfig.maxAttempts =>
              /\ pc # "done"
              /\ Len(sleeps) = Len(statuses)
        /\ Len(statuses) = retryConfig.maxAttempts =>
              /\ pc = "done"
              /\ httpCount = retryConfig.maxAttempts
              /\ Len(sleeps) = retryConfig.maxAttempts - 1
              /\ settled = 1
              /\ result.kind = "Error"
              /\ ReportsAttempts(result.message, retryConfig.maxAttempts)
        /\ \A i \in 1..Len(sleeps) : \A n \in 0..9 :
              headers[i] = <<Digits[n + 1]>> => sleeps[i] = n * 1000

C13_Witness ==
    /\ pc = "done"
    /\ statuses = <<429, 429, 429>>
    /\ headers[1] = <<"5">>
    /\ headers[2] = <<"2">>
    /\ sleeps = <<5000, 2000>>
    /\ result.kind = "Error"

\* C14: after a 429 response whose retry-after header is absent or is not a
\* number of seconds, with attempts remaining, the sleep is 60000 ms.
C14_DefaultSixtySeconds ==
    (/\ lastError # <<>>
     /\ StatusOf(lastError[1]) = 429
     /\ attempt < retryConfig.maxAttempts
     /\ \/ HeaderOf(lastError[1]) = <<>>
        \/ ~IsDigit(HeaderOf(lastError[1])[1])) =>
        /\ Len(sleeps) = attempt
        /\ sleeps[attempt] = 60000

\* The status of the last completed attempt.
LastStatus == statuses[Len(statuses)]

\* The text axios gives an error of status st (0: no response).
TransportText(st) ==
    IF st = 0 THEN <<"Network Error">>
    ELSE <<"Request failed with status code ">> \o ToStr(st)

\* C15: the error thrown after the loop embeds the attempt count and one
\* cause: the error field of the last response body if it has one, else its
\* message field if it has one, else the transport error text.
C15_CauseOrder ==
    (/\ pc = "done"
     /\ result.kind = "Error"
     /\ statuses # <<>>
     /\ LastStatus \notin {401, 404}) =>
        LET resp  == lastError[1].response
            cause == IF resp # <<>> /\ resp[1].data.error # ""
                       THEN <<resp[1].data.error>>
                     ELSE IF resp # <<>> /\ resp[1].data.message # ""
                       THEN <<resp[1].data.message>>
                     ELSE TransportText(LastStatus)
        IN  result.message = <<"Instantly API error after ">>
                             \o ToStr(Len(statuses)) \o <<" attempts: ">> \o cause

C15_Witness ==
    /\ pc = "done"
    /\ statuses = <<500, 0, 500>>
    /\ lastError[1].response[1].data = [error |-> "err", message |-> "msg"]
    /\ result.message = <<"Instantly API error after ", "3", " attempts: ", "err">>

\* C16 as stated: every error a call ends with after an attempt, fatal
\* classification or exhaustion, carries the number of HTTP requests issued.
C16_EveryErrorCarriesCount ==
    (pc = "done" /\ result.kind = "Error" /\ statuses # <<>>) =>
        ReportsAttempts(result.message, httpCount)

\* C16: every error a call ends with after an attempt that did not get a 401
\* or a 404 (exhaustion, or another status below 500) carries the number of
\* attempts made, which is the number of HTTP requests issued; the errors of
\* 401 and 404 carry no attempt count.
C16_FinalErrorCarriesCount ==
    (pc = "done" /\ result.kind = "Error" /\ statuses # <<>>) =>
        IF LastStatus \in {401, 404}
        THEN \A n \in 0..Len(statuses) : ~ReportsAttempts(result.message, n)
        ELSE /\ ReportsAttempts(result.message, httpCount)
             /\ httpCount = Len(statuses)
             /\ attempt = httpCount

C16_Witness ==
    /\ pc = "done"
    /\ statuses = <<500, 400>>
    /\ retryConfig.maxAttempts >= 3
    /\ ReportsAttempts(result.message, 2)

\* sub occurs in seq as a run of consecutive elements.
Contains(seq, sub) ==
    \E i \in 1..(Len(seq) - Len(sub) + 1) :
        SubSeq(seq, i, i + Len(sub) - 1) = sub

\* C17 as stated: when every attempt returns 401 the call fails after exactly
\* one attempt and the message contains 'invalid API key'.
C17_InvalidKeyLowercase ==
    (statuses # <<>> /\ \A k \in 1..Len(statuses) : statuses[k] = 401) =>
        /\ pc = "done"
        /\ httpCount = 1
        /\ result.kind = "Error"
        /\ Contains(result.message,
                    <<"i", "n", "v", "a", "l", "i", "d", " ",
                      "A", "P", "I", " ", "k", "e", "y">>)

\* C17: when every attempt returns 401 the call fails after exactly one
\* attempt and the message contains 'Invalid API key', with a capital I.
C17_InvalidKeyMessage ==
    (statuses # <<>> /\ \A k \in 1..Len(statuses) : statuses[k] = 401) =>
        /\ pc = "done"
        /\ httpCount = 1
        /\ Len(sleeps) = 0
        /\ result.kind = "Error"
        /\ Contains(result.message,
                    <<"I", "n", "v", "a", "l", "i", "d", " ",
                      "A", "P", "I", " ", "k", "e", "y">>)

C17_Witness ==
    /\ pc = "done"
    /\ statuses = <<401>>
    /\ retryConfig.maxAttempts = 3
    /\ retryConfig.initialDelay = 100
    /\ result.message[1] = "I"

\* C18 as stated: on a 404 the error is 'endpoint not found: ' followed by
\* the endpoint of the call.
C18_NotFoundLowercase ==
    (statuses # <<>> /\ LastStatus = 404) =>
        /\ result.kind = "Error"
        /\ result.message =
              <<"e", "n", "d", "p", "o", "i", "n", "t", " ", "n", "o", "t", " ",
                "f", "o", "u", "n", "d", ":", " ">> \o <<endpoint>>

\* C18: on a 404 the error is 'Endpoint not found: ', with a capital E,
\* followed by the endpoint of the call.
C18_NotFoundMessage ==
    (statuses # <<>> /\ LastStatus = 404) =>
        /\ result.kind = "Error"
        /\ result.message =
              <<"E", "n", "d", "p", "o", "i", "n", "t", " ", "n", "o", "t", " ",
                "f", "o", "u", "n", "d", ":", " ">> \o <<endpoint>>

C18_Witness ==
    /\ pc = "done"
    /\ Len(statuses) = 2
    /\ LastStatus = 404
    /\ endpoint = "/campaigns"
    /\ result.message[Len(result.message)] = "/campaigns"

\* C19: once cancellation is signalled while the call waits for a response or
\* sleeps, the call stops: its next step ends it with an error, and neither a
\* further HTTP request nor a further sleep is started.
C19_CancellationStops ==
    [][cancelled =>
          /\ pc' = "done"
          /\ result'.kind = "Error"
          /\ httpCount' = httpCount
          /\ sleeps' = sleeps]_vars

\* The number of failed attempts among the outcomes o.
RECURSIVE Failures(_)
Failures(o) ==
    IF o = <<>> THEN 0
    ELSE Failures(Tail(o)) + (IF Is2xx(o[1].status) THEN 0 ELSE 1)

\* An outcome after which the executor retries when it was attempt k.
Retried(out, k) ==
    /\ k < retryConfig.maxAttempts
    /\ out.status = 429 \/ IsTransient(out.status)

\* C20: in every interleaving of two calls, a step of one call leaves the
\* locals of the other untouched, and the attempt counter, the sleeps and the
\* outcome of each call are determined by the answers that call received and
\* by the policy.
C20_CallsIndependent ==
    /\ [](\A id \in CallIds :
            LET c == calls[id]
                o == c.outcomes
                n == Len(o)
            IN  /\ c.attempt = Failures(o)
                /\ c.httpCount <= retryConfig.maxAttempts
                /\ c.httpCount = IF c.pc \in {"awaitAxios"} THEN n + 1 ELSE n
                /\ \A k \in 1..n : k < n => Retried(o[k], k)
                /\ Len(c.sleeps) = Cardinality({k \in 1..n : Retried(o[k], k)})
                /\ \A k \in 1..Len(c.sleeps) :
                      c.sleeps[k] =
                          IF o[k].status = 429
                          THEN Mul(ParseInt(OrElse(o[k].header, <<"6", "0">>)), 1000)
                          ELSE SpecBackoff(k)
                /\ c.pc = "sleeping" <=> (n > 0 /\ Retried(o[n], n) /\ Len(c.sleeps) = c.httpCount)
                /\ c.pc = "done" <=> (n > 0 /\ ~Retried(o[n], n))
                /\ c.pc = "done" =>
                      c.result.kind = IF Is2xx(o[n].status) THEN "Success" ELSE "Error")
    /\ [][\A id \in CallIds :
            calls'[id] # calls[id] =>
                \A other \in CallIds \ {id} : calls'[other] = calls[other]]_vars

C20_Witness ==
    /\ calls[1].pc = "sleeping"
    /\ calls[1].outcomes = <<[status |-> 500, header |-> <<>>]>>
    /\ calls[1].sleeps = <<1000>>
    /\ calls[2].pc = "done"
    /\ calls[2].attempt = 2
    /\ calls[2].sleeps = <<5000>>
    /\ calls[2].result.kind = "Error"

\* ------------------------------------------------------------------------
\* Properties of the process and of what it writes and sends
\* ------------------------------------------------------------------------

\* INSTANTLY_API_KEY is unset or empty in the environment of the process.
KeyAbsent == env.apiKey = <<>> \/ env.apiKey = <<"">>

\* C21: when the API key is unset or empty at the start of the process, the
\* process exits with the configuration error before the server runs: it
\* never serves, no call of request() starts and no HTTP request is issued.
C21_NoKeyNoService ==
    KeyAbsent =>
        /\ proc \in {"loading", "exited"}
        /\ proc = "exited" => logs = <<KeyRequiredEntry>>
        /\ pc = "idle"
        /\ httpCount = 0
        /\ sent = <<>>

C21_Witness ==
    /\ env.apiKey = <<"">>
    /\ proc = "exited"
    /\ logs = <<KeyRequiredEntry>>

\* The policy c is one the specification calls invalid.
InvalidPolicy(c) == ~Lt(0, c.maxAttempts) \/ Lt(c.maxDelay, c.initialDelay)

\* C22: with a retry configuration that is invalid (maxAttempts not positive,
\* or maxDelay below initialDelay) the process fails at startup: it never
\* serves and no call of request() runs under such a policy.
C22_InvalidPolicyRejected ==
    InvalidPolicy(RetryConfigOf(env)) =>
        /\ proc \in {"loading", "exited"}
        /\ pc = "idle"

\* The token k occurs in the text.
Mentions(text, k) == \E i \in 1..Len(text) : text[i] = k

\* The token k occurs in the entry e of the console, in its text or in a
\* textual field of its details.
EntryMentions(e, k) ==
    \/ Mentions(e.text, k)
    \/ /\ e.details # <<>>
       /\ LET d == e.details[1]
          IN  \/ d.endpoint = k
              \/ d.method = k
              \/ Mentions(d.url, k)
              \/ d.statusText = k
              \/ Mentions(d.message, k)
              \/ /\ d.responseData # <<>>
                 /\ d.responseData[1].error = k \/ d.responseData[1].message = k

DescribesAttempt(e, k) ==
    /\ e.details # <<>>
    /\ e.details[1].attempt = k
    /\ e.details[1].endpoint = endpoint
    /\ e.details[1].method = method
    /\ e.details[1].status = statuses[k]

\* C24: every completed HTTP attempt of a call, successful or failed, has an
\* entry in the console that carries the attempt number, the endpoint, the
\* method and the status, and so has every decision to retry (every entry
\* written before a sleep carries them).
C24_EveryAttemptLogged ==
    /\ \A k \in 1..Len(statuses) :
          \E i \in 1..Len(logs) : DescribesAttempt(logs[i], k)
    /\ \A i \in 1..Len(logs) :
          logs[i].stream = "stdout" =>
              \E k \in 1..Len(statuses) : DescribesAttempt(logs[i], k)

\* C25: every configuration passed to axios carries the payload as params
\* and not as data when the method is GET, and as data and not as params
\* when the method is POST, PATCH or DELETE; there is one configuration per
\* HTTP request.
C25_PayloadPlacement ==
    /\ Len(sent) = httpCount
    /\ \A i \in 1..Len(sent) :
          /\ sent[i].method = method
          /\ method = "GET" =>
                sent[i].params = <<data>> /\ sent[i].data = <<>>
          /\ method \in {"POST", "PATCH", "DELETE"} =>
                sent[i].data = <<data>> /\ sent[i].params = <<>>

C25_Witness ==
    /\ method = "GET"
    /\ Len(sent) = 2
    /\ sent[2].params = <<"payload">>
    /\ sent[2].data = <<>>

\* C26: the retry policy is the one computed from the environment when the
\* module was loaded, and no step of a call changes it or the environment.
C26_PolicyReadOnly ==
    /\ [](proc = "serving" => retryConfig = RetryConfigOf(env))
    /\ [][proc = "serving" => retryConfig' = retryConfig /\ env' = env]_vars

C26_Witness ==
    /\ proc = "serving"
    /\ pc = "done"
    /\ env.maxDelay = <<"5", "0", "0">>
    /\ retryConfig.maxDelay = 500
    /\ sleeps = <<500>>

\* No INSTANTLY_RETRY_* setting is configured.
NoRetrySettings ==
    /\ env.maxAttempts = <<>>
    /\ env.initialDelay = <<>>
    /\ env.maxDelay = <<>>
    /\ env.backoffFactor = <<>>

\* C27: when no retry setting is configured, the policy is maxAttempts 3,
\* initialDelay 1000, maxDelay 10000 and backoffFactor 2, and a call whose
\* attempts are all answered 5xx makes exactly 3 HTTP requests with sleeps of
\* 1000 ms and 2000 ms.
C27_DefaultPolicy ==
    NoRetrySettings =>
        /\ retryConfig = [maxAttempts |-> 3, initialDelay |-> 1000,
                          maxDelay |-> 10000, backoffFactor |-> 2]
        /\ (\A k \in 1..Len(statuses) : statuses[k] >= 500) =>
              /\ httpCount <= 3
              /\ pc = "done" <=> Len(statuses) = 3
              /\ pc = "done" => httpCount = 3 /\ sleeps = <<1000, 2000>>
              /\ pc # "done" => sleeps = SubSeq(<<1000, 2000>>, 1, Len(statuses))

C27_Witness ==
    /\ NoRetrySettings
    /\ pc = "done"
    /\ statuses = <<500, 500, 500>>
    /\ httpCount = 3
    /\ sleeps = <<1000, 2000>>

\* The cause that the details d of a logged failure give: the error field of
\* the response body, else its message field, else the transport text.
CauseOf(d) ==
    IF d.responseData # <<>> /\ d.responseData[1].error # ""
    THEN <<d.responseData[1].error>>
    ELSE IF d.responseData # <<>> /\ d.responseData[1].message # ""
    THEN <<d.responseData[1].message>>
    ELSE d.message

\* C28: the cause in the error thrown after the loop is the one of the last
\* attempt made, as the console recorded it, not of an earlier one: after 500
\* then no response it is the network error, after 500 then 400 without body
\* fields it is the transport text of the 400.
C28_CauseFromLastAttempt ==
    (/\ pc = "done"
     /\ result.kind = "Error"
     /\ statuses # <<>>
     /\ LastStatus \notin {401, 404}) =>
        LET d == logs[Len(logs)].details[1]
        IN  /\ d.attempt = Len(statuses)
            /\ d.status = LastStatus
            /\ result.message = <<"Instantly API error after ">>
                                \o ToStr(Len(statuses)) \o <<" attempts: ">>
                                \o CauseOf(d)
            /\ statuses = <<500, 0>> =>
                  result.message[Len(result.message)] = "Network Error"
            /\ (statuses = <<500, 400>> /\ d.responseData[1] = NoData) =>
                  result.message = <<"Instantly API error after ", "2", " attempts: ">>
                                   \o TransportText(400)

C28_Witness ==
    /\ pc = "done"
    /\ statuses = <<500, 0>>
    /\ retryConfig.maxAttempts = 2
    /\ logs[2].details[1].responseData[1].error = "err"
    /\ result.message = <<"Instantly API error after ", "2", " attempts: ",
                          "Network Error">>

\* C29: at every point of a call the number of sleeps is the number of HTTP
\* requests or one less, every HTTP request after the first is issued when
\* exactly one sleep has followed each earlier request, and at the end of the
\* call the number of sleeps is the number of HTTP requests minus one.
C29_SleepsInterleaved ==
    /\ [](/\ Len(sleeps) \in {httpCount - 1, httpCount}
          /\ pc = "done" => Len(sleeps) = httpCount - 1)
    /\ [][httpCount' = httpCount + 1 => Len(sleeps) = httpCount]_vars

\* C30: the exponent of the backoff counts every failed attempt of the call,
\* those answered 429 included: when attempt k, counted over all the attempts
\* of the call, fails with 5xx or without a response and attempts remain, the
\* sleep is min(initialDelay * backoffFactor^(k-1), maxDelay); 429 then 500
\* with the default delays sleeps 2000 ms after the 500.
C30_ExponentCountsAllFailures ==
    (/\ statuses # <<>>
     /\ IsTransient(LastStatus)
     /\ Len(statuses) < retryConfig.maxAttempts) =>
        /\ Len(sleeps) = Len(statuses)
        /\ sleeps[Len(statuses)] = SpecBackoff(Len(statuses))
        /\ (DefaultDelays /\ statuses = <<429, 500>>) => sleeps[2] = 2000

C30_Witness ==
    /\ DefaultDelays
    /\ pc = "sleeping"
    /\ statuses = <<429, 500>>
    /\ headers[1] = <<"5">>
    /\ sleeps = <<5000, 2000>>

\* The sleep after attempt i was computed by the backoff formula.
BackoffSleep(i) == i <= Len(sleeps) /\ IsTransient(statuses[i])

\* C31: every sleep computed by the backoff formula is at most maxDelay, and
\* under a policy with backoffFactor >= 1 and initialDelay <= maxDelay the
\* backoff sleeps of a call never decrease from one retry to the next.
C31_BackoffCappedAndMonotone ==
    /\ \A i \in 1..Len(sleeps) :
          BackoffSleep(i) => sleeps[i] <= retryConfig.maxDelay
    /\ (retryConfig.backoffFactor >= 1
        /\ retryConfig.initialDelay <= retryConfig.maxDelay) =>
          \A j \in 2..Len(sleeps) :
              BackoffSleep(j) =>
                  \A i \in 1..(j - 1) : BackoffSleep(i) => sleeps[i] <= sleeps[j]

C31_Witness ==
    /\ statuses = <<500, 429, 500, 500, 500>>
    /\ headers[2] = <<"5">>
    /\ retryConfig.maxDelay = 10000
    /\ sleeps = <<1000, 5000, 4000, 8000, 10000>>

RetriedAt(s, i) == i < retryConfig.maxAttempts /\ (s = 429 \/ IsTransient(s))

\* C33: whether an attempt is retried depends only on how it was answered
\* and on the attempts remaining, the same for GET, POST, PATCH and DELETE and
\* for every payload; and every request of a call carries the same method,
\* URL and payload.
C33_RetryIgnoresMethod ==
    /\ \A i \in 1..Len(statuses) :
          /\ RetriedAt(statuses[i], i) =>
                /\ Len(sleeps) >= i
                /\ i = Len(statuses) => pc # "done"
          /\ ~RetriedAt(statuses[i], i) => i = Len(statuses) /\ pc = "done"
    /\ pc = "awaitAxios" => Len(sent) = Len(statuses) + 1
    /\ \A i \in 1..Len(sent) :
          /\ sent[i] = sent[1]
          /\ sent[i].method = method
          /\ sent[i].url = <<BaseUrl, endpoint>>
          /\ <<data>> \in {sent[i].data, sent[i].params}

C33_Witness ==
    /\ method = "DELETE"
    /\ data = "filter"
    /\ statuses = <<500, 429>>
    /\ pc = "awaitAxios"
    /\ Len(sent) = 3
    /\ sent[3].data = <<"filter">>


\* ------------------------------------------------------------------------
\* The tool-call handler and the catalog
\* ------------------------------------------------------------------------

\* The names of the catalog.
Listed == { ToolSchemas[i] : i \in 1..Len(ToolSchemas) }

\* The text of the response the host has received.
ResponseText == toolCall.responses[1].content[1].text

\* The response the host has received is an error response with message msg.
IsErrorResponse(msg) ==
    /\ Len(toolCall.responses[1].content) = 1
    /\ toolCall.responses[1].content[1].type = "text"
    /\ ResponseText = <<"Error: ">> \o msg

\* C34: the handler never lets a failure escape and never drops one. The host
\* receives no response while the handler has not finished and exactly one
\* once it has; the handler finishes in no other way than by a response. The
\* response is the JSON text of the result when request() returned, and
\* "Error: " followed by the message when request() threw, when the tool is
\* unknown, and when the arguments are missing.
C34_HandlerAlwaysResponds ==
    /\ toolCall.phase \in {"idle", "awaiting", "responded"}
    /\ Len(toolCall.responses) = IF toolCall.phase = "responded" THEN 1 ELSE 0
    /\ toolCall.phase = "awaiting" => pc # "idle"
    /\ toolCall.phase = "responded" =>
          IF toolCall.executes = 0
          THEN IF toolCall.arguments = <<>>
               THEN IsErrorResponse(<<"No arguments provided">>)
               ELSE IsErrorResponse(<<"Unknown tool: ", toolCall.name>>)
          ELSE /\ pc = "done"
               /\ result.kind \in {"Success", "Error"}
               /\ result.kind = "Success" =>
                     /\ received # <<>>
                     /\ ResponseText = <<JsonStringify(received[1])>>
               /\ result.kind = "Error" => IsErrorResponse(result.message)

\* C34 witness: request() gave up after two answers 500, and the host has
\* received the one response that carries the terminal error.
C34_Witness ==
    /\ toolCall.phase = "responded"
    /\ toolCall.executes = 1
    /\ statuses = <<500, 500>>
    /\ result.kind = "Error"
    /\ Len(toolCall.responses) = 1
    /\ ResponseText[1] = "Error: "
    /\ Len(ResponseText) > 1

\* C35: a tool call whose name is not in the catalog, or that has no
\* arguments, is answered with an error response, and no HTTP request is
\* made for it, also when the tool takes no parameters.
C35_RejectedWithoutRequest ==
    (toolCall.phase # "idle"
     /\ (toolCall.name \notin Listed \/ toolCall.arguments = <<>>)) =>
        /\ toolCall.phase = "responded"
        /\ Len(toolCall.responses) = 1
        /\ ResponseText[1] = "Error: "
        /\ toolCall.executes = 0
        /\ httpCount = 0
        /\ sent = <<>>
        /\ pc = "idle"

\* C35 witness: count_unread_emails, which takes no parameters, was called
\* without arguments and answered with the error, without any request.
C35_Witness ==
    /\ toolCall.name = "count_unread_emails"
    /\ toolCall.arguments = <<>>
    /\ toolCall.phase = "responded"
    /\ ResponseText = <<"Error: ", "No arguments provided">>
    /\ httpCount = 0

\* C36: the catalog and the dispatcher agree. Once the list of tools was
\* returned, a call with arguments of a listed name runs request() and is
\* never answered with "Unknown tool", a call that runs request() has a listed
\* name, and a tool call runs request() once at most, so that it makes
\* maxAttempts HTTP requests at most.
C36_CatalogMatchesDispatcher ==
    /\ toolCall.listed # <<>> =>
          LET names == { toolCall.listed[i] : i \in 1..Len(toolCall.listed) }
          IN  /\ (toolCall.phase # "idle" /\ toolCall.arguments # <<>>
                  /\ toolCall.name \in names) =>
                    /\ toolCall.executes = 1
                    /\ toolCall.phase = "responded" =>
                          ~ (Len(ResponseText) > 1
                             /\ ResponseText[2] = "Unknown tool: ")
              /\ toolCall.executes > 0 => toolCall.name \in names
    /\ toolCall.executes <= 1
    /\ toolCall.executes = 0 => httpCount = 0
    /\ httpCount <= retryConfig.maxAttempts

\* C36 witness: share_campaign is in the list that was returned, its call ran
\* request() once, and the two attempts the policy allows were made.
C36_Witness ==
    /\ toolCall.listed # <<>>
    /\ toolCall.name = "share_campaign"
    /\ toolCall.executes = 1
    /\ toolCall.phase = "responded"
    /\ retryConfig.maxAttempts = ToolAttemptsBound
    /\ httpCount = ToolAttemptsBound

====
